---- MODULE Spec2Model ----
(***************************************************************************)
(* Age gate EdgeWorker (src/main.ts): responseProvider answers a request   *)
(* carrying a JSON body {"birthday": ...} with a JSON verdict and, when    *)
(* the requester is old enough for the country, a set-cookie header.       *)
(*                                                                         *)
(* One action is one run-to-completion segment of the async handler: the   *)
(* code between two awaits.  Several requests may be suspended at once.    *)
(***************************************************************************)
EXTENDS Integers, Sequences, FiniteSets

VARIABLES req, edgeKv2fa

vars == <<req, edgeKv2fa>>

(* Names of requests; DOMAIN req is the set of requests of a run. *)
Requests == {"r1", "r2"}

-----------------------------------------------------------------------------
(* JavaScript numbers: an integer or NaN. *)

Num(n) == [nan |-> FALSE, v |-> n]

NaN == [nan |-> TRUE, v |-> 0]

(* a >= b on numbers: false as soon as one side is NaN (main.ts:85) *)
JsGT(a, b) == ~a.nan /\ ~b.nan /\ a.v > b.v

JsGE(a, b) == ~a.nan /\ ~b.nan /\ a.v >= b.v

-----------------------------------------------------------------------------
(* Dates.  A time value is day * MsPerDay + ms with 0 <= ms < MsPerDay;    *)
(* it is kept as the pair (day, ms) so that every number stays small.      *)

MsPerDay == 86400000

InvalidDate == [valid |-> FALSE, day |-> 0, ms |-> 0]

TimeValue(day, ms) == [valid |-> TRUE, day |-> day, ms |-> ms]

(* days since 1970-01-01 of the proleptic Gregorian date y-m-d *)
DaysFromCivil(y, m, d) ==
    LET yy  == IF m <= 2 THEN y - 1 ELSE y
        era == yy \div 400
        yoe == yy - era * 400
        mp  == IF m > 2 THEN m - 3 ELSE m + 9
        doy == (153 * mp + 2) \div 5 + d - 1
        doe == yoe * 365 + yoe \div 4 - yoe \div 100 + doy
    IN  era * 146097 + doe - 719468

(* Date.prototype.getUTCFullYear of the time value whose day number is z *)
UTCFullYear(z) ==
    LET zz  == z + 719468
        era == zz \div 146097
        doe == zz - era * 146097
        yoe == (doe - doe \div 1460 + doe \div 36524 - doe \div 146096) \div 365
        y   == yoe + era * 400
        doy == doe - (365 * yoe + yoe \div 4 - yoe \div 100)
        mp  == (5 * doy + 2) \div 153
        m   == IF mp < 10 THEN mp + 3 ELSE mp - 9
    IN  IF m <= 2 THEN y + 1 ELSE y

-----------------------------------------------------------------------------
(* Request bodies.  kind is what request.json() makes of the body:         *)
(* "unparseable" rejects, the others resolve to that JSON value.  For an   *)
(* object, bt is the type of its birthday property.                        *)

Body(kind, bt, y, m, d, n, text) ==
    [kind |-> kind, bt |-> bt, y |-> y, m |-> m, d |-> d, n |-> n, text |-> text]

Birthday(y, m, d) == Body("object", "isodate", y, m, d, 0, "")

Bodies ==
    { Body("unparseable", "none", 0, 0, 0, 0, "SyntaxError: Unexpected token o in JSON"),
      Body("null", "none", 0, 0, 0, 0, ""),
      Body("scalar", "none", 0, 0, 0, 5, ""),
      Body("array", "none", 0, 0, 0, 0, ""),
      Body("object", "undefined", 0, 0, 0, 0, ""),
      Body("object", "null", 0, 0, 0, 0, ""),
      Body("object", "number", 0, 0, 0, 1700000000, ""),
      Body("object", "string", 0, 0, 0, 0, "not a date"),
      Birthday(2000, 1, 1),
      Birthday(2006, 1, 1),
      Birthday(2010, 1, 1),
      Birthday(2030, 6, 1),
      Birthday(2001, 13, 1) }

(* request.userLocation.country: undefined, empty or an ISO-3166 code *)
Geo(defined, code) == [defined |-> defined, code |-> code]

Geos == { Geo(FALSE, ""), Geo(TRUE, ""), Geo(TRUE, "US") }

(* instants at which a request may be handled *)
NowValues == { TimeValue(DaysFromCivil(2024, 6, 15), 43200000) }

-----------------------------------------------------------------------------
(* new Date(jsonBody['birthday']) (main.ts:53).  A property read on a JSON *)
(* number, string or array, or on an object without the property, yields   *)
(* undefined; undefined and text that is no date give an invalid Date;     *)
(* null converts to the number 0 and a number is taken as a time value; a  *)
(* YYYY-MM-DD string is midnight UTC of that day.                          *)
NewDate(body) ==
    IF body.kind # "object" \/ body.bt = "undefined" THEN InvalidDate
    ELSE IF body.bt = "null" THEN TimeValue(0, 0)
    ELSE IF body.bt = "number" THEN TimeValue(body.n \div MsPerDay, body.n % MsPerDay)
    ELSE IF body.bt = "isodate" /\ body.m \in 1..12 /\ body.d \in 1..31
         THEN TimeValue(DaysFromCivil(body.y, body.m, body.d), 0)
    ELSE InvalidDate

(* now.getTime() - birthdate.getTime(), as a (day, ms) time value *)
TimeDiff(now, birthdate) ==
    IF now.ms >= birthdate.ms
    THEN TimeValue(now.day - birthdate.day, now.ms - birthdate.ms)
    ELSE TimeValue(now.day - birthdate.day - 1, now.ms - birthdate.ms + MsPerDay)

(* calculateAge (main.ts:102-111) with the instant new Date() returned *)
calculateAge(birthdate, now) ==
    IF ~birthdate.valid THEN NaN
    ELSE Num(UTCFullYear(TimeDiff(now, birthdate).day) - 1970)

-----------------------------------------------------------------------------
(* The handler's constants and small helpers. *)

(* one retry more than configured *)
num_retries_on_timeout_3 == 2 + 1

(* retries after a timed-out read, given to the EdgeKV constructor (main.ts:16) *)
num_retries_on_timeout == 2

edgeKvTimeout == 500

(* a default of 21 in place of 18 *)
DefaultMinimalAge21 == 18 + 3

(* let minimalAge: number = 18 (main.ts:57) *)
DefaultMinimalAge == 18

(* the client built once at module load (main.ts:16) *)
NewEdgeKV ==
    [namespace |-> "jgrinwiskv", group |-> "age_gate",
     num_retries_on_timeout |-> num_retries_on_timeout]

(* let responseHeader = {...} (main.ts:22): header name, value pairs *)
DefaultResponseHeader ==
    { <<"Powered-By", "Akamai EdgeWorkers: 0.0.16">>,
      <<"content-type", "application/json">> }

(* cookie.toHeader() of the cookie old_enough=yes (main.ts:87-92) *)
CookieHeader == <<"set-cookie", "old_enough=yes">>

TooYoung == "You are too young to drink!"

Welcome == "Welcome, have a drink."

(* request.userLocation.country ?? 'NL': keeps the empty string *)
CountryCodeNullish(geo) == IF geo.defined THEN geo.code ELSE "NL"

(* request.userLocation.country || 'NL' (main.ts:52) *)
CountryCode(geo) == IF geo.defined /\ geo.code # "" THEN geo.code ELSE "NL"

(* response bodies: the text createResponse is given, by its JSON content *)
NoBody == [kind |-> "none", error |-> "", ageNull |-> FALSE, age |-> 0,
           country |-> "", message |-> ""]

(* `{"error": "${error}"}` (main.ts:46) *)
ErrorBody(error) == [NoBody EXCEPT !.kind = "error", !.error = error]

(* JSON.stringify(response) (main.ts:99): NaN is written as null *)
JSONstringify(response) ==
    [kind |-> "verdict", error |-> "", ageNull |-> response.age.nan,
     age |-> response.age.v, country |-> response.country,
     message |-> response.message]

createResponse(status, headers, body) ==
    [status |-> status, headers |-> headers, body |-> body]

NoResponse == createResponse(0, {}, NoBody)

(* createResponse(500, ...): another status for the unparseable body *)
ParseErrorResponse500(headers, error) ==
    createResponse(500, headers, ErrorBody(error))

(* the catch branch of the body parse (main.ts:46-47) *)
ParseErrorResponse(headers, error) ==
    createResponse(503, headers, ErrorBody(error))

-----------------------------------------------------------------------------
(* Values the key/value store may hold for an item. *)

Stored(t, v) == [t |-> t, v |-> v]

NothingRead == Stored("none", 0)

StoredValues ==
    { Stored("absent", 0), Stored("int", 16), Stored("int", 21),
      Stored("string", 0), Stored("null", 0) }

(* the argument of edgeKv2fa.getJson and the client's partition (main.ts:79) *)
ReadRequest(kv, item) ==
    [namespace |-> kv.namespace, group |-> kv.group, item |-> item,
     timeout |-> edgeKvTimeout]

(* getJson's verdict on the value a read returned *)
GetJsonOutcome(stored) ==
    IF stored.t = "int" THEN "ok"
    ELSE IF stored.t = "absent" THEN "missing"
    ELSE "badvalue"

(* getJson retries a timed-out read while retries are left *)
RetriesLeft(kv, reads) == Len(reads) < 1 + kv.num_retries_on_timeout

FailedOutcomes == {"timeout", "missing", "badvalue", "error"}

-----------------------------------------------------------------------------
(* Per-request state: the handler's position and its locals. *)

NoRequestBody == Body("none", "none", 0, 0, 0, 0, "")

NoVerdict == [age |-> NaN, country |-> "", message |-> ""]

Idle ==
    [pc |-> "idle", body |-> NoRequestBody, geo |-> Geo(FALSE, ""),
     responseHeader |-> {}, countryCode |-> "", birthdate |-> InvalidDate,
     age |-> NaN, minimalAge |-> NaN, response |-> NoVerdict,
     kvReads |-> <<>>, kvResults |-> <<>>, kvOutcome |-> "none",
     kvValue |-> NothingRead, logs |-> <<>>, out |-> NoResponse]

(* one request is handled *)
Init ==
    /\ req = [r \in {"r1"} |-> Idle]
    /\ edgeKv2fa = NewEdgeKV

(* two requests are handled, interleaved at their awaits *)
InitConc ==
    /\ req = [r \in Requests |-> Idle]
    /\ edgeKv2fa = NewEdgeKV

(* responseProvider is entered and suspends at request.json() (main.ts:19-38) *)
Receive(r) ==
    /\ req[r].pc = "idle"
    /\ \E body \in Bodies, geo \in Geos :
         req' = [req EXCEPT ![r] = [@ EXCEPT !.pc = "awaitJson", !.body = body,
                                              !.geo = geo,
                                              !.responseHeader = DefaultResponseHeader]]
    /\ UNCHANGED edgeKv2fa

(* request.json() rejected: answer 503 at once (main.ts:39-48) *)
JsonRejected(r) ==
    /\ req[r].pc = "awaitJson"
    /\ req[r].body.kind = "unparseable"
    /\ req' = [req EXCEPT ![r] = [@ EXCEPT !.pc = "done",
                   !.out = ParseErrorResponse(req[r].responseHeader,
                                              req[r].body.text)]]
    /\ UNCHANGED edgeKv2fa

(* request.json() resolved to null: jsonBody['birthday'] throws a TypeError *)
(* outside any try block, so the handler's promise rejects (main.ts:53)     *)
JsonResolvedNull(r) ==
    /\ req[r].pc = "awaitJson"
    /\ req[r].body.kind = "null"
    /\ req' = [req EXCEPT ![r] = [@ EXCEPT !.pc = "thrown",
                   !.countryCode = CountryCode(req[r].geo)]]
    /\ UNCHANGED edgeKv2fa

(* the locals after the body is parsed, with the first read issued *)
(* (main.ts:52-64, 79)                                              *)
AfterParse(q, now, kv) ==
    LET countryCode == CountryCode(q.geo)
        birthdate   == NewDate(q.body)
        age         == calculateAge(birthdate, now)
    IN  [q EXCEPT !.pc = "awaitKv",
                  !.countryCode = countryCode,
                  !.birthdate = birthdate,
                  !.age = age,
                  !.minimalAge = Num(DefaultMinimalAge),
                  !.response = [age |-> age, country |-> countryCode,
                                message |-> TooYoung],
                  !.kvReads = <<ReadRequest(kv, countryCode)>>]

(* request.json() resolved: run up to the await of getJson (main.ts:49-79) *)
JsonResolved(r) ==
    /\ req[r].pc = "awaitJson"
    /\ req[r].body.kind \notin {"unparseable", "null"}
    /\ \E now \in NowValues :
         req' = [req EXCEPT ![r] = AfterParse(@, now, edgeKv2fa)]
    /\ UNCHANGED edgeKv2fa

-----------------------------------------------------------------------------
(* edgeKv2fa.getJson: a read per attempt, settled by the store's answer,   *)
(* an error, or a timeout with no retry left.                              *)

Settle(q, result, outcome, stored) ==
    [q EXCEPT !.pc = "kvSettled",
              !.kvResults = Append(@, result),
              !.kvOutcome = outcome,
              !.kvValue = stored]

(* the read timed out and a retry is left: read the same item again *)
KvRetry(r) ==
    /\ req[r].pc = "awaitKv"
    /\ RetriesLeft(edgeKv2fa, req[r].kvReads)
    /\ req' = [req EXCEPT ![r] = [@ EXCEPT
                   !.kvResults = Append(@, "timeout"),
                   !.kvReads = Append(@, ReadRequest(edgeKv2fa, req[r].countryCode))]]
    /\ UNCHANGED edgeKv2fa

(* the last allowed read timed out: getJson fails *)
KvTimedOut(r) ==
    /\ req[r].pc = "awaitKv"
    /\ ~RetriesLeft(edgeKv2fa, req[r].kvReads)
    /\ req' = [req EXCEPT ![r] = Settle(@, "timeout", "timeout", NothingRead)]
    /\ UNCHANGED edgeKv2fa

(* the store answered the read within the timeout *)
KvAnswer(r) ==
    /\ req[r].pc = "awaitKv"
    /\ \E stored \in StoredValues :
         req' = [req EXCEPT ![r] =
                    Settle(@, "answer", GetJsonOutcome(stored), stored)]
    /\ UNCHANGED edgeKv2fa

(* the read failed for another reason (bad token, server error) *)
KvError(r) ==
    /\ req[r].pc = "awaitKv"
    /\ req' = [req EXCEPT ![r] = Settle(@, "error", "error", NothingRead)]
    /\ UNCHANGED edgeKv2fa

-----------------------------------------------------------------------------
(* The handler after the lookup (main.ts:78-99). *)

(* the stored value as the number the comparison sees *)
ToNumber(stored) ==
    IF stored.t = "int" THEN Num(stored.v)
    ELSE IF stored.t = "null" THEN Num(0)
    ELSE NaN

(* an assignment that takes whatever the read returned, valid or not *)
MinimalAgeUnchecked(current, outcome, stored) ==
    IF outcome \in {"ok", "missing", "badvalue"} THEN ToNumber(stored) ELSE current

(* try { minimalAge = await getJson } catch { log } (main.ts:78-83) *)
MinimalAgeAfterLookup(current, outcome, stored) ==
    IF outcome = "ok" THEN ToNumber(stored) ELSE current

LogLine(msg, n) == [msg |-> msg, n |-> n]

(* logger.log in the try and in the catch branch (main.ts:80, 82) *)
LookupLog(outcome, minimalAge) ==
    IF outcome = "ok" THEN LogLine("edgekv value", minimalAge.v)
    ELSE LogLine("something went wrong", 0)

(* if (age > minimalAge): the boundary age is turned away *)
OldEnoughStrict(age, minimalAge) == JsGT(age, minimalAge)

(* if (age >= minimalAge) (main.ts:85) *)
OldEnough(age, minimalAge) == JsGE(age, minimalAge)

(* one request's locals and response at the end of the handler *)
Verdict(q) ==
    LET minimalAge == MinimalAgeAfterLookup(q.minimalAge, q.kvOutcome, q.kvValue)
        pass       == OldEnough(q.age, minimalAge)
        header     == IF pass THEN q.responseHeader \cup {CookieHeader}
                      ELSE q.responseHeader
        response   == IF pass THEN [q.response EXCEPT !.message = Welcome]
                      ELSE q.response
    IN  [q EXCEPT !.pc = "done",
                  !.minimalAge = minimalAge,
                  !.logs = Append(@, LookupLog(q.kvOutcome, minimalAge)),
                  !.responseHeader = header,
                  !.response = response,
                  !.out = createResponse(200, header, JSONstringify(response))]

(* responseHeader kept in one object at module level: a cookie set for one *)
(* request shows in the headers of every request still being handled       *)
RespondSharedHeader(rq, r) ==
    [s \in DOMAIN rq |->
        IF s = r THEN Verdict(rq[r])
        ELSE IF CookieHeader \in Verdict(rq[r]).responseHeader
                /\ rq[s].pc \in {"awaitJson", "awaitKv", "kvSettled"}
             THEN [rq[s] EXCEPT !.responseHeader = @ \cup {CookieHeader}]
             ELSE rq[s]]

(* the effect of the handler's last segment on the requests in flight *)
RespondUpdate(rq, r) == [rq EXCEPT ![r] = Verdict(@)]

(* getJson settled: compare, set the cookie, answer 200 (main.ts:80-99) *)
Respond(r) ==
    /\ req[r].pc = "kvSettled"
    /\ req' = RespondUpdate(req, r)
    /\ UNCHANGED edgeKv2fa

-----------------------------------------------------------------------------

Next ==
    \E r \in DOMAIN req :
        \/ Receive(r)
        \/ JsonRejected(r)
        \/ JsonResolvedNull(r)
        \/ JsonResolved(r)
        \/ KvRetry(r)
        \/ KvTimedOut(r)
        \/ KvAnswer(r)
        \/ KvError(r)
        \/ Respond(r)

Spec == Init /\ [][Next]_vars

(* a step of a request already received: the runtime settles every awaited *)
(* promise, and a read that gets no answer ends by its timeout             *)
Progress ==
    \E r \in DOMAIN req :
        \/ JsonRejected(r)
        \/ JsonResolvedNull(r)
        \/ JsonResolved(r)
        \/ KvRetry(r)
        \/ KvTimedOut(r)
        \/ KvAnswer(r)
        \/ KvError(r)
        \/ Respond(r)

SpecFair == Spec /\ WF_vars(Progress)

SpecConc == InitConc /\ [][Next]_vars

TypeOK ==
    \A r \in DOMAIN req :
        req[r].pc \in {"idle", "awaitJson", "awaitKv", "kvSettled", "done", "thrown"}

-----------------------------------------------------------------------------
(* Properties. *)

Done200(q) == q.pc = "done" /\ q.out.status = 200

HasSetCookie(out) == \E h \in out.headers : h[1] = "set-cookie"

(* the minimum age in force for a request whose lookup has settled *)
EffectiveMinimalAge(q) == IF q.kvOutcome = "ok" THEN q.kvValue.v ELSE 18

AgeAtLeast(q, n) == ~q.age.nan /\ q.age.v >= n

(* the country code a request's geolocation stands for *)
ExpectedCountry(geo) == IF geo.defined /\ geo.code # "" THEN geo.code ELSE "NL"

(* C1: a 200 response carries set-cookie: old_enough=yes and the Welcome   *)
(* message exactly when the computed age is at least the effective minimum *)
(* age; otherwise it has no set-cookie header and the too-young message.   *)
C1_CookieIffOldEnough ==
    \A r \in DOMAIN req :
        Done200(req[r]) =>
            LET q   == req[r]
                old == AgeAtLeast(q, EffectiveMinimalAge(q))
            IN  /\ (CookieHeader \in q.out.headers) <=> old
                /\ HasSetCookie(q.out) <=> old
                /\ (q.out.body.message = Welcome) <=> old
                /\ ~old => q.out.body.message = TooYoung

(* a request let in at exactly the minimum age, here the default *)
C1_Witness ==
    \E r \in DOMAIN req :
        /\ Done200(req[r])
        /\ req[r].kvOutcome # "ok"
        /\ ~req[r].age.nan /\ req[r].age.v = 18
        /\ CookieHeader \in req[r].out.headers

(* C2: an unparseable body is answered at once with 503, the body          *)
(* {"error": <message>} and the default headers only, with no store read.  *)
C2_UnparseableBody503 ==
    \A r \in DOMAIN req :
        req[r].body.kind = "unparseable" =>
            /\ req[r].pc \in {"awaitJson", "done"}
            /\ req[r].kvReads = <<>>
            /\ req[r].pc = "done" =>
                 /\ req[r].out.status = 503
                 /\ req[r].out.body.kind = "error"
                 /\ req[r].out.body.error = req[r].body.text
                 /\ req[r].out.headers = DefaultResponseHeader
                 /\ ~HasSetCookie(req[r].out)

C2_Witness ==
    \E r \in DOMAIN req :
        /\ req[r].body.kind = "unparseable"
        /\ req[r].pc = "done"
        /\ req[r].out.status = 503

(* C3: when getJson fails, the minimum age compared against is 18 and the  *)
(* request is answered with status 200.                                    *)
C3_LookupFailureUses18 ==
    \A r \in DOMAIN req :
        (req[r].pc = "done" /\ req[r].kvOutcome \in FailedOutcomes) =>
            /\ req[r].minimalAge = Num(18)
            /\ req[r].out.status = 200
            /\ HasSetCookie(req[r].out) <=> AgeAtLeast(req[r], 18)

(* all three reads timed out and the request was answered *)
C3_Witness ==
    \E r \in DOMAIN req :
        /\ Done200(req[r])
        /\ req[r].kvOutcome = "timeout"
        /\ Len(req[r].kvReads) = 3
        /\ req[r].minimalAge = Num(18)
        /\ AgeAtLeast(req[r], 0) /\ ~AgeAtLeast(req[r], 18)
        /\ ~HasSetCookie(req[r].out)

NoDateBirthday(body) ==
    /\ body.kind = "object"
    /\ body.bt \in {"undefined", "null", "number", "string"}

(* C5: a body whose birthday is missing or no parseable date (null, a      *)
(* number, text that is no date) is denied: no set-cookie, too-young       *)
(* message.                                                                *)
C5_NoDateIsDenied ==
    \A r \in DOMAIN req :
        (Done200(req[r]) /\ NoDateBirthday(req[r].body)) =>
            /\ ~HasSetCookie(req[r].out)
            /\ req[r].out.body.message = TooYoung

C7_AgeNonNegative ==
    \A r \in DOMAIN req :
        (req[r].pc \in {"awaitKv", "kvSettled", "done"} /\ req[r].birthdate.valid) =>
            /\ ~req[r].age.nan /\ req[r].age.v >= 0
            /\ Done200(req[r]) =>
                 ~req[r].out.body.ageNull /\ req[r].out.body.age >= 0

ReadsBounded(q) ==
    /\ Len(q.kvReads) <= 3
    /\ \A i \in 1..Len(q.kvReads) : q.kvReads[i].timeout = 500
    /\ Len(q.kvResults) <= Len(q.kvReads)
    /\ \A i \in 1..Len(q.kvReads) : i > 1 => q.kvResults[i - 1] = "timeout"

(* C8: a lookup makes at most 3 reads, each with the 500 ms timeout and    *)
(* each but the first after a timed-out read, and a request waiting for    *)
(* the store is always answered in the end.                                *)
C8_LookupBoundedAndAnswered ==
    /\ [](\A r \in DOMAIN req : ReadsBounded(req[r]))
    /\ \A r \in Requests :
          (r \in DOMAIN req /\ req[r].pc = "awaitKv")
              ~> (r \in DOMAIN req /\ req[r].pc = "done")

(* the third read is out after two timeouts *)
C8_Witness ==
    \E r \in DOMAIN req :
        /\ req[r].pc = "awaitKv"
        /\ Len(req[r].kvReads) = 3
        /\ req[r].kvResults = <<"timeout", "timeout">>

(* C9: the country code is the geolocation country, or "NL" when that is   *)
(* absent or empty; it is the item of every store read and the country of  *)
(* the 200 response.                                                       *)
C9_CountryCodeUsed ==
    \A r \in DOMAIN req :
        req[r].pc \in {"awaitKv", "kvSettled", "done"} /\ req[r].kvReads # <<>> =>
            /\ req[r].countryCode = ExpectedCountry(req[r].geo)
            /\ \A i \in 1..Len(req[r].kvReads) :
                   req[r].kvReads[i].item = ExpectedCountry(req[r].geo)
            /\ Done200(req[r]) =>
                   req[r].out.body.country = ExpectedCountry(req[r].geo)

(* an empty geolocation country answered as NL after a retried read *)
C9_Witness ==
    \E r \in DOMAIN req :
        /\ Done200(req[r])
        /\ req[r].geo = Geo(TRUE, "")
        /\ Len(req[r].kvReads) = 2
        /\ req[r].out.body.country = "NL"

(* a step changes the state of one request at most, and never the client *)
OwnStateOnly ==
    /\ \A r \in DOMAIN req :
          req'[r] # req[r] => \A s \in DOMAIN req \ {r} : req'[s] = req[s]
    /\ edgeKv2fa' = edgeKv2fa
    /\ edgeKv2fa = NewEdgeKV

(* C10: under any interleaving a step of one request leaves the headers,   *)
(* ages, country and message of every other request as they were, and the  *)
(* shared client's configuration is never changed.                         *)
C10_NoInterference == [][OwnStateOnly]_vars

(* two requests answered side by side, one let in and one turned away *)
C10_Witness ==
    \E r, s \in DOMAIN req :
        /\ r # s
        /\ Done200(req[r]) /\ Done200(req[s])
        /\ HasSetCookie(req[r].out) /\ ~HasSetCookie(req[s].out)
        /\ req[r].out.body.country # req[s].out.body.country
        /\ Len(req[r].logs) = 1 /\ Len(req[s].logs) = 1

====
